---- MODULE Spec2Model ----
(***************************************************************************)
(* A model of blockhead: the Blockhead store (src/main.rs) behind the      *)
(* Blockchain trait, and Transaction::compute_hash (src/transaction.rs)    *)
(* on top of HashBuilder (src/hash.rs).                                    *)
(*                                                                         *)
(* Spec      a client holding one Blockhead calls the trait's methods in   *)
(*           any order; every call and what it returned is appended to     *)
(*           log.  A panic ends the run.                                   *)
(* SpecHash  Transaction::compute_hash applied to transactions and block   *)
(*           hashes drawn from bounded sets.                               *)
(***************************************************************************)
EXTENDS Integers, Sequences, FiniteSets, TLC

VARIABLES blocks, transactions, balances, block_table, pc, log

vars == <<blocks, transactions, balances, block_table, pc, log>>

(***************************************************************************)
(* Bounds                                                                  *)
(***************************************************************************)
\* number of calls recorded in one run
MaxLog == 2
\* number of distinct addresses the client uses: [0; 32], [1; 32], ...
NumAddresses == 2

(***************************************************************************)
(* Identifier types                                                        *)
(***************************************************************************)
\* Address(pub [u8; 32])
AddressLen == 32
\* Hash(pub [u8; 32])
HashLen == 32

\* [b; n]
Fill(b, n) == [i \in 1..n |-> b]

\* Hash([0u8; 32]), the value send_transaction returns
ZeroHash == Fill(0, HashLen)

\* "abcdef".into(): the Blake2s-256 digest of the bytes of "abcdef"
HashAbcdef ==
    << 38, 126,  68,  67, 252,  26,  56, 135, 159, 235,  16, 144, 175,  30, 120, 137,
       86, 223, 217,  50,   4, 205, 220, 186, 129, 141, 110,  50, 238,  87, 243,  53>>

\* hex::encode: two lowercase hex digits per byte
HexDigit == <<"0","1","2","3","4","5","6","7","8","9","a","b","c","d","e","f">>

RECURSIVE hex_encode(_)
hex_encode(bytes) ==
    IF bytes = <<>> THEN <<>>
    ELSE <<HexDigit[(Head(bytes) \div 16) + 1], HexDigit[(Head(bytes) % 16) + 1]>>
         \o hex_encode(Tail(bytes))

\* impl Display for Hash: "0x" followed by the hex encoding
to_string(hash) == <<"0x">> \o hex_encode(hash)

(***************************************************************************)
(* Values of Option, Result and an unwinding panic                         *)
(***************************************************************************)
None == [tag |-> "None"]
Some(x) == [tag |-> "Some", v |-> x]
Ok(x) == [tag |-> "Ok", v |-> x]
Panic == [tag |-> "Panic"]

EmptyMap == [k \in {} |-> k]

(***************************************************************************)
(* Inputs of the client                                                    *)
(***************************************************************************)
Addresses == {Fill(b, AddressLen) : b \in 0..(NumAddresses - 1)}
Values == {0, 1, 100}
Datas == {<<>>, <<1, 2, 3>>}
Transactions ==
    [from_address : Addresses, to_address : Addresses, value : Values, data : Datas]
Hashes == {ZeroHash, HashAbcdef, Fill(1, HashLen)}
Numbers == {0, 1, 999}

(***************************************************************************)
(* Blockhead                                                               *)
(***************************************************************************)
\* Blockhead::new: the tables are created empty and the three maps are Default
Init ==
    /\ blocks = EmptyMap
    /\ transactions = EmptyMap
    /\ balances = EmptyMap
    /\ block_table = {}
    /\ pc = "running"
    /\ log = <<>>

\* the call returns r to the client
Return(op, arg, r) ==
    /\ log' = Append(log, [op |-> op, arg |-> arg, ret |-> r])
    /\ UNCHANGED <<blocks, transactions, balances, block_table, pc>>

\* the call panics: the client's task unwinds and makes no further call
Abort(op, arg) ==
    /\ log' = Append(log, [op |-> op, arg |-> arg, ret |-> Panic])
    /\ pc' = "panicked"
    /\ UNCHANGED <<blocks, transactions, balances, block_table>>

CanCall == pc = "running" /\ Len(log) < MaxLog

\* SELECT * FROM block WHERE hash = ? LIMIT 1
select_block(table, hash_string) == {row \in table : row.hash = hash_string}

\* a variant that reports an unknown block as an error
get_block_by_hash_unknown_is_error(self_blocks, table, hash) ==
    IF hash \in DOMAIN self_blocks
    THEN Ok(Some(self_blocks[hash]))
    ELSE [tag |-> "Err", e |-> "UnknownBlock"]

\* every selected row is read at the columns "name" and "age", which the block
\* table does not have: Row::read panics; with no row, the map answers
get_block_by_hash_result(self_blocks, table, hash) ==
    IF select_block(table, to_string(hash)) # {}
    THEN Panic
    ELSE Ok(IF hash \in DOMAIN self_blocks THEN Some(self_blocks[hash]) ELSE None)

get_block_by_hash ==
    /\ CanCall
    /\ \E hash \in Hashes :
        LET r == get_block_by_hash_result(blocks, block_table, hash)
        IN IF r.tag = "Panic"
           THEN Abort("get_block_by_hash", hash)
           ELSE Return("get_block_by_hash", hash, r)

\* a variant that unwraps the search, as get_latest_block does
get_block_by_number_unwrapped(self_blocks, number) ==
    LET found == {h \in DOMAIN self_blocks : self_blocks[h].number = number}
    IN IF found = {} THEN {Panic} ELSE {Some(self_blocks[h]) : h \in found}

\* blocks.values().find(|block| block.number == number).cloned(): the first match
\* in the map's iteration order, which is unspecified: any match
get_block_by_number_results(self_blocks, number) ==
    LET found == {h \in DOMAIN self_blocks : self_blocks[h].number = number}
    IN IF found = {} THEN {None} ELSE {Some(self_blocks[h]) : h \in found}

get_block_by_number ==
    /\ CanCall
    /\ \E number \in Numbers :
        \E r \in get_block_by_number_results(blocks, number) :
            Return("get_block_by_number", number, r)

\* blocks.values().max_by_key(|block| block.number).cloned(): None on an empty map
latest_block_options(self_blocks) ==
    {Some(self_blocks[h]) : h \in {k \in DOMAIN self_blocks :
        \A o \in DOMAIN self_blocks : self_blocks[o].number <= self_blocks[k].number}}

\* .unwrap() of that Option: a panic on None
get_latest_block ==
    /\ CanCall
    /\ IF latest_block_options(blocks) = {}
       THEN Abort("get_latest_block", <<>>)
       ELSE \E r \in latest_block_options(blocks) :
                Return("get_latest_block", <<>>, r.v)

get_transaction_result(self_transactions, hash) ==
    IF hash \in DOMAIN self_transactions THEN Some(self_transactions[hash]) ELSE None

get_transaction ==
    /\ CanCall
    /\ \E hash \in Hashes :
        Return("get_transaction", hash, get_transaction_result(transactions, hash))

\* the transaction is ignored and Hash([0u8; 32]) returned
send_transaction_result(transaction) == ZeroHash

send_transaction ==
    /\ CanCall
    /\ \E transaction \in Transactions :
        Return("send_transaction", transaction, send_transaction_result(transaction))

\* a variant stubbed with a constant, as estimate_gas is
get_balance_stubbed(self_balances, address) == 21000

\* *self.balances.get(&address).unwrap_or(&0)
get_balance_result(self_balances, address) ==
    IF address \in DOMAIN self_balances THEN self_balances[address] ELSE 0

get_balance ==
    /\ CanCall
    /\ \E address \in Addresses :
        Return("get_balance", address, get_balance_result(balances, address))

\* the address is ignored and 0 returned
get_nonce_result(address) == 0

get_nonce ==
    /\ CanCall
    /\ \E address \in Addresses :
        Return("get_nonce", address, get_nonce_result(address))

Next ==
    \/ get_block_by_hash
    \/ get_block_by_number
    \/ get_latest_block
    \/ get_transaction
    \/ send_transaction
    \/ get_balance
    \/ get_nonce

Spec == Init /\ [][Next]_vars

(***************************************************************************)
(* HashBuilder and Transaction::compute_hash                               *)
(***************************************************************************)
\* HashBuilder::new: nothing fed to the hasher yet
new == <<>>

\* HashBuilder::update: the bytes are appended to what the hasher has been fed
update(hasher, data) == hasher \o data

\* HashBuilder::finalize: the Blake2s-256 digest of everything fed to the hasher;
\* the digest is kept symbolic, as the input it is the digest of
finalize(hasher) == [blake2s256 |-> hasher]

\* the n low-order bytes of value, most significant first
RECURSIVE be_bytes(_, _)
be_bytes(value, n) ==
    IF n = 0 THEN <<>> ELSE Append(be_bytes(value \div 256, n - 1), value % 256)

\* u64::to_be_bytes
to_be_bytes(value) == be_bytes(value, 8)

\* a variant that is not scoped to the block: the block hash is not fed
compute_hash_unscoped(self, hash) ==
    LET h2 == update(new, self.from_address)
        h3 == update(h2, self.to_address)
        h4 == update(h3, to_be_bytes(self.value))
        h5 == update(h4, self.data)
    IN finalize(h5)

\* Transaction::compute_hash
compute_hash(self, hash) ==
    LET h1 == update(new, hash)
        h2 == update(h1, self.from_address)
        h3 == update(h2, self.to_address)
        h4 == update(h3, to_be_bytes(self.value))
        h5 == update(h4, self.data)
    IN finalize(h5)

\* the block hashes compute_hash is applied to
BlockHashes == {ZeroHash, HashAbcdef}

ComputeHash ==
    /\ Len(log) < MaxLog
    /\ \E self \in Transactions, hash \in BlockHashes :
        Return("compute_hash", [self |-> self, hash |-> hash], compute_hash(self, hash))

NextHash == ComputeHash

SpecHash == Init /\ [][NextHash]_vars

(***************************************************************************)
(* Properties                                                              *)
(***************************************************************************)
\* the positions in log of the calls of op
Calls(op) == {i \in 1..Len(log) : log[i].op = op}

\* C1: a transaction for which send_transaction returned a hash is committed:
\* it is stored under that hash, and a later get_transaction of that hash
\* returns it.
C1_SentTransactionIsCommitted ==
    \A i \in Calls("send_transaction") :
        /\ log[i].ret \in DOMAIN transactions
        /\ transactions[log[i].ret] = log[i].arg
        /\ \A j \in Calls("get_transaction") :
            (j > i /\ log[j].arg = log[i].ret) => log[j].ret = Some(log[i].arg)

\* C2: get_latest_block on a store with no block fails with the EmptyChain
\* error and does not abort.
C2_EmptyChainIsAnError ==
    \A i \in Calls("get_latest_block") :
        DOMAIN blocks = {} =>
            /\ log[i].ret.tag = "Err"
            /\ pc = "running"

\* C3: get_block_by_hash(h) returns Ok(Some(b)) exactly when the block b is
\* stored under h and Ok(None) otherwise; it never fails for an unknown hash.
C3_UnknownBlockIsAbsence ==
    \A i \in Calls("get_block_by_hash") :
        /\ log[i].ret.tag = "Ok"
        /\ IF log[i].arg \in DOMAIN blocks
           THEN log[i].ret.v = Some(blocks[log[i].arg])
           ELSE log[i].ret.v = None

\* the hash a send_transaction returned is then looked up as a block: Ok(None)
C3_Witness ==
    \E i \in Calls("send_transaction") : \E j \in Calls("get_block_by_hash") :
        /\ i < j
        /\ log[j].arg = log[i].ret
        /\ log[j].ret = Ok(None)

\* C6: a committed transaction increments its sender's nonce: once
\* send_transaction has returned a hash for a transaction the sender's balance
\* covers, get_nonce of the sender is at least 1.
C6_CommittedTransactionBumpsNonce ==
    \A i \in Calls("send_transaction") : \A j \in Calls("get_nonce") :
        ( /\ i < j
          /\ log[j].arg = log[i].arg.from_address
          /\ log[i].arg.value <= get_balance_result(balances, log[i].arg.from_address) )
        => log[j].ret >= 1

\* C8: get_balance(a) returns the balance the account index records for a, and
\* 0 when the index does not know a; it never fails.
C8_BalanceDefaultsToZero ==
    \A i \in Calls("get_balance") :
        /\ log[i].ret \in Nat
        /\ log[i].ret = (IF log[i].arg \in DOMAIN balances THEN balances[log[i].arg] ELSE 0)

\* main's first call: get_balance(Address([0u8; 32])) on the fresh store is 0
C8_Witness ==
    /\ Len(log) >= 1
    /\ log[1].op = "get_balance"
    /\ log[1].arg = Fill(0, AddressLen)
    /\ log[1].ret = 0
    /\ pc = "running"

\* C9: get_block_by_number(n) returns a stored block whose number is n when
\* there is one, and None when no stored block has number n.
C9_BlockByNumber ==
    \A i \in Calls("get_block_by_number") :
        IF \E h \in DOMAIN blocks : blocks[h].number = log[i].arg
        THEN /\ log[i].ret.tag = "Some"
             /\ log[i].ret.v.number = log[i].arg
             /\ \E h \in DOMAIN blocks : blocks[h] = log[i].ret.v
        ELSE log[i].ret = None

\* get_block_by_number(999) found nothing
C9_Witness ==
    \E i \in Calls("get_block_by_number") :
        /\ log[i].arg = 999
        /\ log[i].ret = None
        /\ \A h \in DOMAIN blocks : blocks[h].number # 999

\* byte k of value, counted from the least significant one
RECURSIVE ByteAt(_, _)
ByteAt(value, k) == IF k = 0 THEN value % 256 ELSE ByteAt(value \div 256, k - 1)

\* the bytes the hasher was fed for call i of compute_hash
DigestInput(i) == log[i].ret.blake2s256

\* C10: compute_hash digests, in this order, the 32 bytes of the block hash, the
\* 32 bytes of from, the 32 bytes of to, the 8 bytes of value most significant
\* first, and the data; equal inputs give equal hashes and inputs that differ
\* in any field give different digest inputs.
C10_DigestInput ==
    /\ \A i \in Calls("compute_hash") :
        LET tx == log[i].arg.self
            inp == DigestInput(i)
        IN /\ Len(inp) = 104 + Len(tx.data)
           /\ SubSeq(inp, 1, 32) = log[i].arg.hash
           /\ SubSeq(inp, 33, 64) = tx.from_address
           /\ SubSeq(inp, 65, 96) = tx.to_address
           /\ \A k \in 0..7 : inp[104 - k] = ByteAt(tx.value, k)
           /\ SubSeq(inp, 105, Len(inp)) = tx.data
    /\ \A i, j \in Calls("compute_hash") :
        /\ log[i].arg = log[j].arg => log[i].ret = log[j].ret
        /\ log[i].arg # log[j].arg => DigestInput(i) # DigestInput(j)

\* the same transaction hashed under two block hashes: two digest inputs
C10_Witness ==
    \E i, j \in Calls("compute_hash") :
        /\ log[i].arg.self = log[j].arg.self
        /\ log[i].arg.self.value = 100
        /\ log[i].arg.hash # log[j].arg.hash
        /\ DigestInput(i) # DigestInput(j)

====
